---- MODULE Spec2Model ----
(***************************************************************************)
(* Model of the user-info pallet (pallets/template/src/lib.rs): a storage  *)
(* map AccountId -> (User, Balance) whose entries are backed by a deposit  *)
(* reserved through a ReservableCurrency, with four dispatchable calls:    *)
(* insert_user_info, clear_user_info, kill_user_info and force_user_info.  *)
(*                                                                         *)
(* Names used by the specification text:                                   *)
(*   submit_profile    = insert_user_info   NotRegistered = UserNotAdded   *)
(*   withdraw_profile  = clear_user_info    Unauthorized  = BadOrigin      *)
(*   force_remove      = kill_user_info     ProfileAdded  = UserInfoAdded  *)
(*   force_set_profile = force_user_info    (and so on for the events)     *)
(***************************************************************************)
EXTENDS Integers, Sequences, FiniteSets, TLC

(***************************************************************************)
(* Bounds of the model.                                                    *)
(***************************************************************************)
\* Number of dispatched calls explored in one behaviour (the event log and
\* the call history grow with every call).
MaxCalls == 3
\* Largest free balance an account holds at genesis.
MaxBalance == 2

(***************************************************************************)
(* Configuration of the pallet (trait Config).                             *)
(***************************************************************************)
MaxLength == 1
\* The deposit a runtime configures; zero is a value the type allows too.
ConfiguredDeposit == 2
DepositValues == {0, ConfiguredDeposit}

(***************************************************************************)
(* Value domains.                                                          *)
(***************************************************************************)
Identities == {"a", "b"}
Root == "root"
\* An origin is Root or Signed(who); a signed origin is written as its account.
Origins == {Root} \cup Identities
\* A lookup source either names an account or is an index no account has.
UnknownIndex == "idx"
Addresses == Identities \cup {UnknownIndex}
ByteValues == {65}
Ages == {30}
None == "none"

RECURSIVE VecsOfLen(_)
VecsOfLen(n) ==
    IF n = 0 THEN {<<>>}
    ELSE {Append(v, b) : v \in VecsOfLen(n - 1), b \in ByteValues}

\* The Vec<u8> arguments a caller may pass: every length up to one past the bound.
Vecs == UNION {VecsOfLen(n) : n \in 0..(MaxLength + 1)}

Min(x, y) == IF x <= y THEN x ELSE y

\* Free balances at genesis: none, just short of the deposit, and the largest.
GenesisBalances == {0, ConfiguredDeposit - 1, MaxBalance}

(***************************************************************************)
(* Collaborators, by the contract of their traits.                         *)
(***************************************************************************)
\* ensure_signed(origin): Ok(who) for a signed origin, BadOrigin otherwise.
ensure_signed(origin) ==
    IF origin \in Identities THEN [ok |-> TRUE, who |-> origin]
    ELSE [ok |-> FALSE, who |-> None]

\* T::ForceOrigin::ensure_origin(origin): the privileged origin is Root.
ensure_origin(origin) == origin = Root

\* T::Lookup::lookup(recipient): StaticLookup, may fail.
lookup(recipient) ==
    IF recipient \in Identities THEN [ok |-> TRUE, who |-> recipient]
    ELSE [ok |-> FALSE, who |-> None]

\* try_from that cuts a longer vec down to the bound instead of rejecting it.
try_from_truncating(v) ==
    IF Len(v) <= MaxLength THEN [ok |-> TRUE, vec |-> v]
    ELSE [ok |-> TRUE, vec |-> SubSeq(v, 1, MaxLength)]

\* BoundedVec::<u8, MaxLength>::try_from(v): keeps the bytes, rejects a longer vec.
try_from(v) ==
    IF Len(v) <= MaxLength THEN [ok |-> TRUE, vec |-> v]
    ELSE [ok |-> FALSE, vec |-> <<>>]

\* ReservableCurrency::reserve(who, value): moves value from free to reserved;
\* if the free balance is lower than value nothing moves and an error returns.
reserve(l, who, value) ==
    IF l.free[who] < value
    THEN [ok |-> FALSE, ledger |-> l]
    ELSE [ok |-> TRUE,
          ledger |-> [free     |-> [l.free EXCEPT ![who] = @ - value],
                      reserved |-> [l.reserved EXCEPT ![who] = @ + value]]]

\* ReservableCurrency::unreserve(who, value): moves up to value from reserved
\* to free, never fails, returns what could not be moved.
unreserve(l, who, value) ==
    LET actual == Min(l.reserved[who], value)
    IN  [ledger    |-> [free     |-> [l.free EXCEPT ![who] = @ + actual],
                        reserved |-> [l.reserved EXCEPT ![who] = @ - actual]],
         remaining |-> value - actual]

\* ReservableCurrency::slash_reserved(who, value): deducts up to value from
\* the reserved balance, never fails; returns the imbalance deducted and, as
\* second item, the part of value that could not be deducted.
slash_reserved(l, who, value) ==
    LET actual == Min(l.reserved[who], value)
    IN  [ledger    |-> [free     |-> l.free,
                        reserved |-> [l.reserved EXCEPT ![who] = @ - actual]],
         imbalance |-> actual,
         remaining |-> value - actual]

\* T::Slashed::on_unbalanced(imbalance): the sink receives the imbalance.
on_unbalanced(sink, imbalance) == sink + imbalance

(***************************************************************************)
(* State.                                                                  *)
(***************************************************************************)
VARIABLES
    AccountToUserInfo,  \* storage map: account -> Option<(User, Balance)>,
                        \* an Option being a sequence of at most one item
    free,               \* currency: free balance of each account
    reserved,           \* currency: reserved balance of each account
    slashed,            \* total value handed to T::Slashed
    events,             \* events deposited so far, in order
    last,               \* the call dispatched last: arguments, result, ledger
                        \* calls it made and the state it started from
    nCalls,             \* number of calls dispatched
    deposit_value       \* what T::DepositValue::get() returns; never changes

vars == <<AccountToUserInfo, free, reserved, slashed, events, last, nCalls,
          deposit_value>>

\* T::DepositValue::get()
DepositValue == deposit_value

\* The pallet-visible state as one value.
State == [store    |-> AccountToUserInfo,
          free     |-> free,
          reserved |-> reserved,
          slashed  |-> slashed,
          events   |-> events]

\* The state at genesis, but for the free balances.
Genesis(balances) ==
    [store    |-> [i \in Identities |-> <<>>],
     free     |-> balances,
     reserved |-> [i \in Identities |-> 0],
     slashed  |-> 0,
     events   |-> <<>>]

NoCall == [op |-> None, origin |-> None, recipient |-> None, name |-> <<>>,
           age |-> 0, title |-> <<>>, result |-> None, calls |-> <<>>,
           pre |-> Genesis([i \in Identities |-> 0])]

Init ==
    /\ AccountToUserInfo = [i \in Identities |-> <<>>]
    /\ free \in [Identities -> GenesisBalances]
    /\ reserved = [i \in Identities |-> 0]
    /\ slashed = 0
    /\ events = <<>>
    /\ last = NoCall
    /\ nCalls = 0
    /\ deposit_value = ConfiguredDeposit

\* Genesis of a runtime that configures any of the deposit values; each
\* account holds nothing or the largest balance.
InitAnyDeposit ==
    /\ AccountToUserInfo = [i \in Identities |-> <<>>]
    /\ free \in [Identities -> {0, MaxBalance}]
    /\ reserved = [i \in Identities |-> 0]
    /\ slashed = 0
    /\ events = <<>>
    /\ last = NoCall
    /\ nCalls = 0
    /\ deposit_value \in DepositValues

\* An outcome that leaves the state as it was (an early return through `?`).
Fail(s, err) == [result |-> err, state |-> s, calls |-> <<>>]

Ledger(s) == [free |-> s.free, reserved |-> s.reserved]

WithLedger(s, l) == [s EXCEPT !.free = l.free, !.reserved = l.reserved]

(***************************************************************************)
(* The dispatchable calls, each as the outcome of the whole call on state  *)
(* s: its result, the state it leaves and the currency calls it made.      *)
(***************************************************************************)
\* The deposit block taking the deposit of a new entry without reserving it.
insert_deposit_skip_reserve(s, sender) ==
    LET found == s.store[sender]
    IN  IF found # <<>>
        THEN [ok      |-> TRUE,
              deposit |-> found[1].deposit,
              state   |-> [s EXCEPT !.events = Append(@, <<"UserInfoUpdated", sender>>)],
              calls   |-> <<>>]
        ELSE [ok      |-> TRUE,
              deposit |-> DepositValue,
              state   |-> [s EXCEPT
                  !.events = Append(@, <<"ValueReserved", sender, DepositValue>>)],
              calls   |-> <<>>]

\* The deposit block reserving on every call, whether or not an entry exists.
insert_deposit_always_reserve(s, sender) ==
    LET r == reserve(Ledger(s), sender, DepositValue)
    IN  IF ~r.ok
        THEN [ok      |-> FALSE,
              deposit |-> 0,
              state   |-> s,
              calls   |-> << <<"reserve", sender, DepositValue>> >>]
        ELSE [ok      |-> TRUE,
              deposit |-> DepositValue,
              state   |-> [WithLedger(s, r.ledger) EXCEPT
                  !.events = Append(@, <<"ValueReserved", sender, DepositValue>>)],
              calls   |-> << <<"reserve", sender, DepositValue>> >>]

\* The deposit block dropping the result of reserve (no `?`).
insert_deposit_ignore_error(s, sender) ==
    LET found == s.store[sender]
        r     == reserve(Ledger(s), sender, DepositValue)
    IN  IF found # <<>>
        THEN [ok      |-> TRUE,
              deposit |-> found[1].deposit,
              state   |-> [s EXCEPT !.events = Append(@, <<"UserInfoUpdated", sender>>)],
              calls   |-> <<>>]
        ELSE [ok      |-> TRUE,
              deposit |-> DepositValue,
              state   |-> [WithLedger(s, r.ledger) EXCEPT
                  !.events = Append(@, <<"ValueReserved", sender, DepositValue>>)],
              calls   |-> << <<"reserve", sender, DepositValue>> >>]

\* The deposit block looking for an entry under any account, not the sender's.
insert_deposit_any_key(s, sender) ==
    LET holders == {i \in Identities : s.store[i] # <<>>}
        found   == IF holders = {} THEN <<>>
                   ELSE s.store[CHOOSE i \in holders : TRUE]
        r       == reserve(Ledger(s), sender, DepositValue)
    IN  IF found # <<>>
        THEN [ok      |-> TRUE,
              deposit |-> found[1].deposit,
              state   |-> [s EXCEPT !.events = Append(@, <<"UserInfoUpdated", sender>>)],
              calls   |-> <<>>]
        ELSE IF ~r.ok
        THEN [ok      |-> FALSE,
              deposit |-> 0,
              state   |-> s,
              calls   |-> << <<"reserve", sender, DepositValue>> >>]
        ELSE [ok      |-> TRUE,
              deposit |-> DepositValue,
              state   |-> [WithLedger(s, r.ledger) EXCEPT
                  !.events = Append(@, <<"ValueReserved", sender, DepositValue>>)],
              calls   |-> << <<"reserve", sender, DepositValue>> >>]

\* let deposit = if let Some((_, deposit)) = get(&sender) { .. } else { .. };
\* the deposit the entry will carry, or the error of T::Currency::reserve.
insert_deposit(s, sender) ==
    LET found == s.store[sender]
        r     == reserve(Ledger(s), sender, DepositValue)
    IN  IF found # <<>>
        THEN [ok      |-> TRUE,
              deposit |-> found[1].deposit,
              state   |-> [s EXCEPT !.events = Append(@, <<"UserInfoUpdated", sender>>)],
              calls   |-> <<>>]
        ELSE IF ~r.ok
        THEN [ok      |-> FALSE,
              deposit |-> 0,
              state   |-> s,
              calls   |-> << <<"reserve", sender, DepositValue>> >>]
        ELSE [ok      |-> TRUE,
              deposit |-> DepositValue,
              state   |-> [WithLedger(s, r.ledger) EXCEPT
                  !.events = Append(@, <<"ValueReserved", sender, DepositValue>>)],
              calls   |-> << <<"reserve", sender, DepositValue>> >>]

\* insert_user_info taking the deposit before it checks the title.
insert_user_info_deposit_first(s, origin, name, age, title) ==
    LET signed        == ensure_signed(origin)
        sender        == signed.who
        bounded_name  == try_from(name)
        bounded_title == try_from(title)
        user          == [name |-> bounded_name.vec, age |-> age,
                          title |-> bounded_title.vec]
        d             == insert_deposit(s, sender)
    IN  IF ~signed.ok THEN Fail(s, "BadOrigin")
        ELSE IF ~bounded_name.ok THEN Fail(s, "TooLong")
        ELSE IF ~d.ok
        THEN [result |-> "InsufficientBalance", state |-> s, calls |-> d.calls]
        ELSE IF ~bounded_title.ok
        THEN [result |-> "TooLong", state |-> d.state, calls |-> d.calls]
        ELSE [result |-> "Ok",
              state  |-> [d.state EXCEPT
                  !.store[sender] = <<[user |-> user, deposit |-> d.deposit]>>,
                  !.events = Append(@, <<"UserInfoAdded", sender>>)],
              calls  |-> d.calls]

insert_user_info(s, origin, name, age, title) ==
    LET signed        == ensure_signed(origin)
        sender        == signed.who
        bounded_name  == try_from(name)
        bounded_title == try_from(title)
        user          == [name |-> bounded_name.vec, age |-> age,
                          title |-> bounded_title.vec]
        d             == insert_deposit(s, sender)
    IN  IF ~signed.ok THEN Fail(s, "BadOrigin")
        ELSE IF ~bounded_name.ok THEN Fail(s, "TooLong")
        ELSE IF ~bounded_title.ok THEN Fail(s, "TooLong")
        ELSE IF ~d.ok
        THEN [result |-> "InsufficientBalance", state |-> s, calls |-> d.calls]
        ELSE [result |-> "Ok",
              state  |-> [d.state EXCEPT
                  !.store[sender] = <<[user |-> user, deposit |-> d.deposit]>>,
                  !.events = Append(@, <<"UserInfoAdded", sender>>)],
              calls  |-> d.calls]

\* clear_user_info removing the entry without releasing its deposit.
clear_user_info_no_unreserve(s, origin) ==
    LET signed  == ensure_signed(origin)
        sender  == signed.who
        found   == s.store[sender]
        deposit == found[1].deposit
    IN  IF ~signed.ok THEN Fail(s, "BadOrigin")
        ELSE IF found = <<>> THEN Fail(s, "UserNotAdded")
        ELSE [result |-> "Ok",
              state  |-> [s EXCEPT
                  !.store[sender] = <<>>,
                  !.events = @ \o << <<"ValueUnreserved", sender, deposit>>,
                                     <<"UserInfoDeleted", sender>> >>],
              calls  |-> <<>>]

\* clear_user_info taking a missing entry for one with no deposit
\* (unwrap_or_default in place of ok_or(UserNotAdded)?).
clear_user_info_unchecked(s, origin) ==
    LET signed  == ensure_signed(origin)
        sender  == signed.who
        found   == s.store[sender]
        deposit == IF found = <<>> THEN 0 ELSE found[1].deposit
        u       == unreserve(Ledger(s), sender, deposit)
    IN  IF ~signed.ok THEN Fail(s, "BadOrigin")
        ELSE [result |-> "Ok",
              state  |-> [WithLedger(s, u.ledger) EXCEPT
                  !.store[sender] = <<>>,
                  !.events = @ \o << <<"ValueUnreserved", sender, deposit>>,
                                     <<"UserInfoDeleted", sender>> >>],
              calls  |-> << <<"unreserve", sender, deposit>> >>]

\* clear_user_info releasing the configured deposit instead of the stored one.
clear_user_info_config_amount(s, origin) ==
    LET signed  == ensure_signed(origin)
        sender  == signed.who
        found   == s.store[sender]
        deposit == DepositValue
        u       == unreserve(Ledger(s), sender, deposit)
    IN  IF ~signed.ok THEN Fail(s, "BadOrigin")
        ELSE IF found = <<>> THEN Fail(s, "UserNotAdded")
        ELSE [result |-> "Ok",
              state  |-> [WithLedger(s, u.ledger) EXCEPT
                  !.store[sender] = <<>>,
                  !.events = @ \o << <<"ValueUnreserved", sender, deposit>>,
                                     <<"UserInfoDeleted", sender>> >>],
              calls  |-> << <<"unreserve", sender, deposit>> >>]

clear_user_info(s, origin) ==
    LET signed  == ensure_signed(origin)
        sender  == signed.who
        found   == s.store[sender]
        deposit == found[1].deposit
        u       == unreserve(Ledger(s), sender, deposit)
    IN  IF ~signed.ok THEN Fail(s, "BadOrigin")
        ELSE IF found = <<>> THEN Fail(s, "UserNotAdded")
        ELSE [result |-> "Ok",
              state  |-> [WithLedger(s, u.ledger) EXCEPT
                  !.store[sender] = <<>>,
                  !.events = @ \o << <<"ValueUnreserved", sender, deposit>>,
                                     <<"UserInfoDeleted", sender>> >>],
              calls  |-> << <<"unreserve", sender, deposit>> >>]

\* kill_user_info dropping the imbalance instead of handing it to T::Slashed.
kill_user_info_drop_imbalance(s, origin, recipient) ==
    LET looked  == lookup(recipient)
        target  == looked.who
        found   == s.store[target]
        deposit == found[1].deposit
        sl      == slash_reserved(Ledger(s), target, deposit)
    IN  IF ~ensure_origin(origin) THEN Fail(s, "BadOrigin")
        ELSE IF ~looked.ok THEN Fail(s, "LookupError")
        ELSE IF found = <<>> THEN Fail(s, "UserNotAdded")
        ELSE [result |-> "Ok",
              state  |-> [WithLedger(s, sl.ledger) EXCEPT
                  !.store[target] = <<>>,
                  !.events = @ \o << <<"SlashedBalance", target, sl.remaining>>,
                                     <<"UserInfoDeleted", target>> >>],
              calls  |-> << <<"slash_reserved", target, deposit>> >>]

\* kill_user_info looking the target up before it checks the origin.
kill_user_info_late_origin_check(s, origin, recipient) ==
    LET looked  == lookup(recipient)
        target  == looked.who
        found   == s.store[target]
        deposit == found[1].deposit
        sl      == slash_reserved(Ledger(s), target, deposit)
    IN  IF ~looked.ok THEN Fail(s, "LookupError")
        ELSE IF found = <<>> THEN Fail(s, "UserNotAdded")
        ELSE IF ~ensure_origin(origin) THEN Fail(s, "BadOrigin")
        ELSE [result |-> "Ok",
              state  |-> [WithLedger(s, sl.ledger) EXCEPT
                  !.slashed = on_unbalanced(@, sl.imbalance),
                  !.store[target] = <<>>,
                  !.events = @ \o << <<"SlashedBalance", target, sl.remaining>>,
                                     <<"UserInfoDeleted", target>> >>],
              calls  |-> << <<"slash_reserved", target, deposit>>,
                            <<"on_unbalanced", sl.imbalance>> >>]

kill_user_info(s, origin, recipient) ==
    LET looked  == lookup(recipient)
        target  == looked.who
        found   == s.store[target]
        deposit == found[1].deposit
        sl      == slash_reserved(Ledger(s), target, deposit)
        \* let (negetive_imbalance, total_balance) = slash_reserved(..)
        negetive_imbalance == sl.imbalance
        total_balance      == sl.remaining
    IN  IF ~ensure_origin(origin) THEN Fail(s, "BadOrigin")
        ELSE IF ~looked.ok THEN Fail(s, "LookupError")
        ELSE IF found = <<>> THEN Fail(s, "UserNotAdded")
        ELSE [result |-> "Ok",
              state  |-> [WithLedger(s, sl.ledger) EXCEPT
                  !.slashed = on_unbalanced(@, negetive_imbalance),
                  !.store[target] = <<>>,
                  !.events = @ \o << <<"SlashedBalance", target, total_balance>>,
                                     <<"UserInfoDeleted", target>> >>],
              calls  |-> << <<"slash_reserved", target, deposit>>,
                            <<"on_unbalanced", negetive_imbalance>> >>]

\* force_user_info giving a new entry the configured deposit, unreserved.
force_user_info_config_deposit(s, origin, recipient, name, age, title) ==
    LET bounded_name  == try_from(name)
        bounded_title == try_from(title)
        looked        == lookup(recipient)
        target        == looked.who
        user          == [name |-> bounded_name.vec, age |-> age,
                          title |-> bounded_title.vec]
        found         == s.store[target]
        deposit       == IF found # <<>> THEN found[1].deposit ELSE DepositValue
    IN  IF ~ensure_origin(origin) THEN Fail(s, "BadOrigin")
        ELSE IF ~bounded_name.ok THEN Fail(s, "TooLong")
        ELSE IF ~bounded_title.ok THEN Fail(s, "TooLong")
        ELSE IF ~looked.ok THEN Fail(s, "LookupError")
        ELSE [result |-> "Ok",
              state  |-> [s EXCEPT
                  !.store[target] = <<[user |-> user, deposit |-> deposit]>>],
              calls  |-> <<>>]

\* force_user_info resolving the target before it checks name and title.
force_user_info_lookup_first(s, origin, recipient, name, age, title) ==
    LET bounded_name  == try_from(name)
        bounded_title == try_from(title)
        looked        == lookup(recipient)
        target        == looked.who
        user          == [name |-> bounded_name.vec, age |-> age,
                          title |-> bounded_title.vec]
        found         == s.store[target]
        deposit       == IF found # <<>> THEN found[1].deposit ELSE 0
    IN  IF ~ensure_origin(origin) THEN Fail(s, "BadOrigin")
        ELSE IF ~looked.ok THEN Fail(s, "LookupError")
        ELSE IF ~bounded_name.ok THEN Fail(s, "TooLong")
        ELSE IF ~bounded_title.ok THEN Fail(s, "TooLong")
        ELSE [result |-> "Ok",
              state  |-> [s EXCEPT
                  !.store[target] = <<[user |-> user, deposit |-> deposit]>>],
              calls  |-> <<>>]

\* force_user_info storing a zero deposit whether or not an entry exists.
force_user_info_zero_deposit(s, origin, recipient, name, age, title) ==
    LET bounded_name  == try_from(name)
        bounded_title == try_from(title)
        looked        == lookup(recipient)
        target        == looked.who
        user          == [name |-> bounded_name.vec, age |-> age,
                          title |-> bounded_title.vec]
    IN  IF ~ensure_origin(origin) THEN Fail(s, "BadOrigin")
        ELSE IF ~bounded_name.ok THEN Fail(s, "TooLong")
        ELSE IF ~bounded_title.ok THEN Fail(s, "TooLong")
        ELSE IF ~looked.ok THEN Fail(s, "LookupError")
        ELSE [result |-> "Ok",
              state  |-> [s EXCEPT
                  !.store[target] = <<[user |-> user, deposit |-> 0]>>],
              calls  |-> <<>>]

force_user_info(s, origin, recipient, name, age, title) ==
    LET bounded_name  == try_from(name)
        bounded_title == try_from(title)
        looked        == lookup(recipient)
        target        == looked.who
        user          == [name |-> bounded_name.vec, age |-> age,
                          title |-> bounded_title.vec]
        found         == s.store[target]
        deposit       == IF found # <<>> THEN found[1].deposit ELSE 0
    IN  IF ~ensure_origin(origin) THEN Fail(s, "BadOrigin")
        ELSE IF ~bounded_name.ok THEN Fail(s, "TooLong")
        ELSE IF ~bounded_title.ok THEN Fail(s, "TooLong")
        ELSE IF ~looked.ok THEN Fail(s, "LookupError")
        ELSE [result |-> "Ok",
              state  |-> [s EXCEPT
                  !.store[target] = <<[user |-> user, deposit |-> deposit]>>],
              calls  |-> <<>>]

(***************************************************************************)
(* Dispatch: one action per call.  A call runs to completion; the action   *)
(* installs the state it leaves and records the call in `last`.            *)
(***************************************************************************)
Dispatch(call, out) ==
    /\ nCalls < MaxCalls
    /\ AccountToUserInfo' = out.state.store
    /\ free' = out.state.free
    /\ reserved' = out.state.reserved
    /\ slashed' = out.state.slashed
    /\ events' = out.state.events
    /\ last' = [call EXCEPT !.result = out.result, !.calls = out.calls,
                            !.pre = State]
    /\ nCalls' = nCalls + 1
    /\ UNCHANGED deposit_value

InsertUserInfo ==
    \E origin \in Origins, name \in Vecs, age \in Ages, title \in Vecs :
        Dispatch([NoCall EXCEPT !.op = "insert_user_info", !.origin = origin,
                                !.name = name, !.age = age, !.title = title],
                 insert_user_info(State, origin, name, age, title))

ClearUserInfo ==
    \E origin \in Origins :
        Dispatch([NoCall EXCEPT !.op = "clear_user_info", !.origin = origin],
                 clear_user_info(State, origin))

KillUserInfo ==
    \E origin \in Origins, recipient \in Addresses :
        Dispatch([NoCall EXCEPT !.op = "kill_user_info", !.origin = origin,
                                !.recipient = recipient],
                 kill_user_info(State, origin, recipient))

ForceUserInfo ==
    \E origin \in Origins, recipient \in Addresses,
       name \in Vecs, age \in Ages, title \in Vecs :
        Dispatch([NoCall EXCEPT !.op = "force_user_info", !.origin = origin,
                                !.recipient = recipient,
                                !.name = name, !.age = age, !.title = title],
                 force_user_info(State, origin, recipient, name, age, title))

Next ==
    \/ InsertUserInfo
    \/ ClearUserInfo
    \/ KillUserInfo
    \/ ForceUserInfo

Spec == Init /\ [][Next]_vars

\* The calls without the privileged force_user_info.
NextNoForce ==
    \/ InsertUserInfo
    \/ ClearUserInfo
    \/ KillUserInfo

SpecNoForce == Init /\ [][NextNoForce]_vars

\* All four calls, in a runtime that configures any of the deposit values.
SpecAnyDeposit == InitAnyDeposit /\ [][Next]_vars

TypeOK ==
    /\ free \in [Identities -> Nat]
    /\ reserved \in [Identities -> Nat]
    /\ slashed \in Nat
    /\ \A i \in Identities : Len(AccountToUserInfo[i]) <= 1
    /\ nCalls \in 0..MaxCalls
    /\ deposit_value \in DepositValues

(***************************************************************************)
(* Vocabulary of the properties.  `last` is the call dispatched last and   *)
(* last.pre the state it started from.                                     *)
(***************************************************************************)
RECURSIVE SumOver(_, _)
SumOver(f, S) ==
    IF S = {} THEN 0
    ELSE LET x == CHOOSE y \in S : TRUE IN f[x] + SumOver(f, S \ {x})

\* Free plus reserved balances of all accounts, plus what T::Slashed received.
Total(s) == SumOver(s.free, Identities) + SumOver(s.reserved, Identities) + s.slashed

\* The last call came from a signed origin / from the privileged origin.
SignedCall(op) == last.op = op /\ last.origin \in Identities
RootCall(op) == last.op = op /\ last.origin = Root

ValidLengths == Len(last.name) <= MaxLength /\ Len(last.title) <= MaxLength

\* The User the arguments of the last call describe.
GivenUser == [name |-> last.name, age |-> last.age, title |-> last.title]

\* The last call left everything as it found it and called no collaborator.
NoEffect == State = last.pre /\ last.calls = <<>>

\* The ledger balances of every account but w are as before the last call.
OthersUntouched(w) ==
    \A i \in Identities \ {w} :
        /\ free[i] = last.pre.free[i]
        /\ reserved[i] = last.pre.reserved[i]

\* The last n events deposited.
LastOf(seq, n) == SubSeq(seq, Len(seq) - n + 1, Len(seq))

(***************************************************************************)
(* C1. Without force_user_info: the reserved balance of an account with an *)
(* entry equals the deposit stored in the entry, and an account without an *)
(* entry has nothing reserved.                                             *)
(***************************************************************************)
C1_ReservedMatchesEntry ==
    \A i \in Identities :
        reserved[i] = IF AccountToUserInfo[i] = <<>> THEN 0
                      ELSE AccountToUserInfo[i][1].deposit

\* One account holds an entry backed by its deposit while another has just
\* had its entry, and with it its reservation, removed.
C1_Witness ==
    \E i, j \in Identities :
        /\ i # j
        /\ AccountToUserInfo[i] # <<>>
        /\ reserved[i] = DepositValue
        /\ last.op \in {"clear_user_info", "kill_user_info"}
        /\ last.result = "Ok"
        /\ last.pre.store[j] # <<>>
        /\ last.pre.reserved[j] = DepositValue
        /\ AccountToUserInfo[j] = <<>>

(***************************************************************************)
(* C2. Every call, successful or not, conserves value: the sum of all free *)
(* and reserved balances plus the value handed to the slashed-funds sink   *)
(* is what it was before the call.  insert_user_info only moves            *)
(* DepositValue (or nothing) from the sender's free to its reserved        *)
(* balance, clear_user_info only moves the stored deposit from reserved to *)
(* free, kill_user_info only moves the stored deposit from reserved to the *)
(* sink, force_user_info and failed calls move nothing.                    *)
(***************************************************************************)
C2_ValueConserved ==
    last.op # None =>
        /\ Total(State) = Total(last.pre)
        /\ last.result # "Ok" =>
              /\ free = last.pre.free
              /\ reserved = last.pre.reserved
              /\ slashed = last.pre.slashed
        /\ (last.op = "insert_user_info" /\ last.result = "Ok") =>
              LET w     == last.origin
                  moved == IF last.pre.store[w] = <<>> THEN DepositValue ELSE 0
              IN  /\ free[w] = last.pre.free[w] - moved
                  /\ reserved[w] = last.pre.reserved[w] + moved
                  /\ slashed = last.pre.slashed
                  /\ OthersUntouched(w)
        /\ (last.op = "clear_user_info" /\ last.result = "Ok") =>
              LET w     == last.origin
                  moved == last.pre.store[w][1].deposit
              IN  /\ free[w] = last.pre.free[w] + moved
                  /\ reserved[w] = last.pre.reserved[w] - moved
                  /\ slashed = last.pre.slashed
                  /\ OthersUntouched(w)
        /\ (last.op = "kill_user_info" /\ last.result = "Ok") =>
              LET w     == last.recipient
                  moved == last.pre.store[w][1].deposit
              IN  /\ free[w] = last.pre.free[w]
                  /\ reserved[w] = last.pre.reserved[w] - moved
                  /\ slashed = last.pre.slashed + moved
                  /\ OthersUntouched(w)
        /\ last.op = "force_user_info" =>
              /\ free = last.pre.free
              /\ reserved = last.pre.reserved
              /\ slashed = last.pre.slashed

\* A deposit has just been slashed into the sink while another account's
\* deposit is still reserved.
C2_Witness ==
    /\ last.op = "kill_user_info"
    /\ last.result = "Ok"
    /\ slashed = DepositValue
    /\ \E i \in Identities : reserved[i] = DepositValue

(***************************************************************************)
(* C3. As claimed: for every account with no entry, insert_user_info with  *)
(* name and title within MaxLength succeeds, creates an entry whose        *)
(* deposit is DepositValue and calls reserve exactly once with that        *)
(* amount.                                                                 *)
(***************************************************************************)
C3_InsertCreatesAlways ==
    (/\ SignedCall("insert_user_info")
     /\ ValidLengths
     /\ last.pre.store[last.origin] = <<>>)
    => /\ last.result = "Ok"
       /\ AccountToUserInfo[last.origin] # <<>>
       /\ AccountToUserInfo[last.origin][1].deposit = DepositValue
       /\ last.calls = << <<"reserve", last.origin, DepositValue>> >>

(***************************************************************************)
(* C3, amended. For every account with no entry and a free balance of at   *)
(* least DepositValue, insert_user_info with name and title within         *)
(* MaxLength succeeds, creates an entry holding the given user with        *)
(* deposit DepositValue, and calls reserve exactly once with that amount.  *)
(***************************************************************************)
C3_InsertCreates ==
    (/\ SignedCall("insert_user_info")
     /\ ValidLengths
     /\ last.pre.store[last.origin] = <<>>
     /\ last.pre.free[last.origin] >= DepositValue)
    => /\ last.result = "Ok"
       /\ AccountToUserInfo[last.origin] =
              <<[user |-> GivenUser, deposit |-> DepositValue]>>
       /\ last.calls = << <<"reserve", last.origin, DepositValue>> >>
       /\ reserved[last.origin] = last.pre.reserved[last.origin] + DepositValue

\* An account without an entry and with enough free balance has inserted.
C3_Witness ==
    /\ SignedCall("insert_user_info")
    /\ ValidLengths
    /\ last.pre.store[last.origin] = <<>>
    /\ last.pre.free[last.origin] >= DepositValue
    /\ last.result = "Ok"
    /\ Len(last.name) = MaxLength

(***************************************************************************)
(* C4. For an account that already has an entry, however it was created,   *)
(* insert_user_info with name and title within MaxLength succeeds,         *)
(* replaces the user, keeps the stored deposit, calls neither reserve nor  *)
(* unreserve, and leaves the free and reserved balances as they were.      *)
(***************************************************************************)
C4_InsertUpdateKeepsDeposit ==
    (/\ SignedCall("insert_user_info")
     /\ ValidLengths
     /\ last.pre.store[last.origin] # <<>>)
    => /\ last.result = "Ok"
       /\ AccountToUserInfo[last.origin] =
              <<[user |-> GivenUser,
                 deposit |-> last.pre.store[last.origin][1].deposit]>>
       /\ last.calls = <<>>
       /\ free = last.pre.free
       /\ reserved = last.pre.reserved

\* An entry created by force_user_info (deposit zero) has been updated by
\* its account with a different user.
C4_Witness ==
    /\ SignedCall("insert_user_info")
    /\ last.result = "Ok"
    /\ last.pre.store[last.origin] # <<>>
    /\ last.pre.store[last.origin][1].deposit = 0
    /\ last.pre.store[last.origin][1].user # GivenUser
    /\ last.pre.free[last.origin] >= DepositValue

(***************************************************************************)
(* C5. When name or title is longer than MaxLength, insert_user_info (from *)
(* a signed origin) and force_user_info (from the privileged origin) fail  *)
(* with TooLong and leave the storage map, the balances and the event log  *)
(* as they were; and no stored user ever has a name or a title longer than *)
(* MaxLength.                                                              *)
(***************************************************************************)
C5_TooLongRejected ==
    /\ ((SignedCall("insert_user_info") \/ RootCall("force_user_info"))
        /\ ~ValidLengths)
       => (last.result = "TooLong" /\ NoEffect)
    /\ \A i \in Identities :
          AccountToUserInfo[i] # <<>> =>
              /\ Len(AccountToUserInfo[i][1].user.name) <= MaxLength
              /\ Len(AccountToUserInfo[i][1].user.title) <= MaxLength

\* The privileged origin has tried to overwrite an existing entry with a
\* title one byte too long.
C5_Witness ==
    /\ RootCall("force_user_info")
    /\ Len(last.name) <= MaxLength
    /\ Len(last.title) = MaxLength + 1
    /\ last.recipient \in Identities
    /\ last.pre.store[last.recipient] # <<>>
    /\ last.result = "TooLong"

(***************************************************************************)
(* C6. insert_user_info with valid lengths from an account without an      *)
(* entry whose free balance is below DepositValue: reserve is called and   *)
(* fails, the call returns the currency's error, no entry is written, no   *)
(* balance changes and no event is deposited.                              *)
(***************************************************************************)
C6_InsufficientBalance ==
    (/\ SignedCall("insert_user_info")
     /\ ValidLengths
     /\ last.pre.store[last.origin] = <<>>
     /\ last.pre.free[last.origin] < DepositValue)
    => /\ last.result = "InsufficientBalance"
       /\ last.calls = << <<"reserve", last.origin, DepositValue>> >>
       /\ State = last.pre

\* An account that cannot afford the deposit has tried to insert, after
\* other calls had already deposited events.
C6_Witness ==
    /\ SignedCall("insert_user_info")
    /\ ValidLengths
    /\ last.pre.store[last.origin] = <<>>
    /\ last.pre.free[last.origin] < DepositValue
    /\ last.pre.events # <<>>
    /\ last.result = "InsufficientBalance"

(***************************************************************************)
(* C7. clear_user_info from an account without an entry fails with         *)
(* UserNotAdded, calls no collaborator, deposits no event and leaves the   *)
(* storage map unchanged, in every reachable state.                        *)
(***************************************************************************)
C7_ClearAbsent ==
    (/\ SignedCall("clear_user_info")
     /\ last.pre.store[last.origin] = <<>>)
    => (last.result = "UserNotAdded" /\ NoEffect)

\* The account clears again right after its entry was removed.
C7_Witness ==
    /\ SignedCall("clear_user_info")
    /\ last.result = "UserNotAdded"
    /\ Len(last.pre.events) >= 2
    /\ LastOf(last.pre.events, 1) = << <<"UserInfoDeleted", last.origin>> >>

(***************************************************************************)
(* C8. clear_user_info from an account with an entry succeeds, removes the *)
(* entry and calls unreserve with exactly the stored deposit: the free     *)
(* balance grows and the reserved balance shrinks by that amount.  And     *)
(* from any reachable state, insert_user_info by an account without an     *)
(* entry followed by clear_user_info gives the account back its free and   *)
(* reserved balances and leaves it without an entry.                       *)
(***************************************************************************)
C8_ClearReleasesDeposit ==
    /\ (/\ SignedCall("clear_user_info")
        /\ last.pre.store[last.origin] # <<>>)
       => LET w      == last.origin
              stored == last.pre.store[w][1].deposit
          IN  /\ last.result = "Ok"
              /\ AccountToUserInfo[w] = <<>>
              /\ last.calls = << <<"unreserve", w, stored>> >>
              /\ free[w] = last.pre.free[w] + stored
              /\ reserved[w] = last.pre.reserved[w] - stored
    /\ \A w \in Identities, name \in VecsOfLen(MaxLength),
          age \in Ages, title \in VecsOfLen(0) :
          LET ins == insert_user_info(State, w, name, age, title)
              clr == clear_user_info(ins.state, w)
          IN  (AccountToUserInfo[w] = <<>> /\ ins.result = "Ok")
              => /\ ins.state.store[w] # <<>>
                 /\ clr.result = "Ok"
                 /\ clr.state.store[w] = <<>>
                 /\ clr.state.free[w] = free[w]
                 /\ clr.state.reserved[w] = reserved[w]

\* An account has cleared the entry it had just created by inserting.
C8_Witness ==
    /\ SignedCall("clear_user_info")
    /\ last.result = "Ok"
    /\ Len(last.pre.events) >= 2
    /\ LastOf(last.pre.events, 2) =
           << <<"ValueReserved", last.origin, DepositValue>>,
              <<"UserInfoAdded", last.origin>> >>
    /\ free[last.origin] = last.pre.free[last.origin] + DepositValue
    /\ reserved[last.origin] = 0

(***************************************************************************)
(* C9. kill_user_info from an origin that is not privileged fails with the *)
(* origin error whether or not the target has an entry (the origin is      *)
(* checked before the target is looked up), and leaves the storage map,    *)
(* the ledger and the event log unchanged.                                 *)
(***************************************************************************)
C9_KillUnauthorized ==
    (last.op = "kill_user_info" /\ last.origin # Root)
    => (last.result = "BadOrigin" /\ NoEffect)

\* A signed origin has tried to kill the entry of an account that has none.
C9_Witness ==
    /\ SignedCall("kill_user_info")
    /\ last.recipient \in Identities
    /\ last.pre.store[last.recipient] = <<>>
    /\ \E i \in Identities : last.pre.store[i] # <<>>
    /\ last.result = "BadOrigin"

(***************************************************************************)
(* C10. As claimed: kill_user_info from the privileged origin on a target  *)
(* with an entry removes the entry, calls slash_reserved with the stored   *)
(* deposit, deposits SlashedBalance(target, t) with t the total actually   *)
(* forfeited, hands the forfeited value to the sink and does not increase  *)
(* the target's free balance.                                              *)
(***************************************************************************)
C10_KillReportsSlashed ==
    (/\ RootCall("kill_user_info")
     /\ last.recipient \in Identities
     /\ last.pre.store[last.recipient] # <<>>)
    => LET w         == last.recipient
           stored    == last.pre.store[w][1].deposit
           forfeited == last.pre.reserved[w] - reserved[w]
       IN  /\ last.result = "Ok"
           /\ AccountToUserInfo[w] = <<>>
           /\ last.calls[1] = <<"slash_reserved", w, stored>>
           /\ events = last.pre.events \o
                  << <<"SlashedBalance", w, forfeited>>,
                     <<"UserInfoDeleted", w>> >>
           /\ slashed = last.pre.slashed + forfeited
           /\ free[w] <= last.pre.free[w]

(***************************************************************************)
(* C11. Every call is all-or-nothing: whenever a call returns an error     *)
(* (BadOrigin, TooLong, UserNotAdded, the currency's error, LookupError)   *)
(* the storage map, all balances, the slashed-funds sink and the event log *)
(* are as before the call; the only collaborator an erring call has called *)
(* is the reserve that failed and moved nothing.                           *)
(***************************************************************************)
C11_ErrorsLeaveNoTrace ==
    (last.op # None /\ last.result # "Ok")
    => /\ State = last.pre
       /\ last.result \in {"BadOrigin", "TooLong", "UserNotAdded",
                           "InsufficientBalance", "LookupError"}
       /\ IF last.result = "InsufficientBalance"
          THEN last.calls = << <<"reserve", last.origin, DepositValue>> >>
          ELSE last.calls = <<>>

\* The privileged origin named a target that resolves to no account, while
\* entries, reservations and events already exist.
C11_Witness ==
    /\ RootCall("kill_user_info")
    /\ last.recipient = UnknownIndex
    /\ last.result = "LookupError"
    /\ last.pre.events # <<>>
    /\ \E i \in Identities : last.pre.reserved[i] > 0

\* Name and title arguments within the bound.
ValidVecs == {v \in Vecs : Len(v) <= MaxLength}

\* How many of the collaborator calls a dispatch made are calls of reserve.
ReserveCalls(calls) == Cardinality({k \in 1..Len(calls) : calls[k][1] = "reserve"})

(***************************************************************************)
(* C12. As claimed: for any account and any name and title within the      *)
(* bound, insert_user_info twice in a row with the same arguments leaves   *)
(* the entry and the balances that the first call left, and across both    *)
(* calls reserve is called only once.                                      *)
(***************************************************************************)
C12_InsertTwiceAlways ==
    \A w \in Identities, name \in ValidVecs, age \in Ages, title \in ValidVecs :
        LET once  == insert_user_info(State, w, name, age, title)
            twice == insert_user_info(once.state, w, name, age, title)
        IN  /\ twice.state.store = once.state.store
            /\ Ledger(twice.state) = Ledger(once.state)
            /\ ReserveCalls(once.calls) + ReserveCalls(twice.calls) <= 1

(***************************************************************************)
(* C12, amended. For any account and any name and title within the bound,  *)
(* when a first insert_user_info succeeds, a second one with the same      *)
(* arguments succeeds too, leaves the entry (user and deposit) and all     *)
(* balances as the first left them and calls no reserve: across both calls *)
(* reserve is called once if the account had no entry and not at all if it *)
(* had one.                                                                *)
(***************************************************************************)
C12_InsertIdempotent ==
    /\ \A w \in Identities, name \in ValidVecs, age \in Ages, title \in ValidVecs :
          LET once  == insert_user_info(State, w, name, age, title)
              twice == insert_user_info(once.state, w, name, age, title)
          IN  once.result = "Ok" =>
                 /\ twice.result = "Ok"
                 /\ twice.state.store = once.state.store
                 /\ Ledger(twice.state) = Ledger(once.state)
                 /\ twice.state.slashed = once.state.slashed
                 /\ ReserveCalls(twice.calls) = 0
                 /\ ReserveCalls(once.calls) =
                        IF AccountToUserInfo[w] = <<>> THEN 1 ELSE 0
    /\ (/\ SignedCall("insert_user_info")
        /\ ValidLengths
        /\ last.pre.store[last.origin] # <<>>
        /\ last.pre.store[last.origin][1].user = GivenUser)
       => /\ last.result = "Ok"
          /\ AccountToUserInfo = last.pre.store
          /\ free = last.pre.free
          /\ reserved = last.pre.reserved
          /\ last.calls = <<>>

\* An account has inserted again, with the same arguments, right after the
\* insert that created its entry and reserved its deposit.
C12_Witness ==
    /\ SignedCall("insert_user_info")
    /\ last.result = "Ok"
    /\ Len(last.pre.events) >= 2
    /\ LastOf(last.pre.events, 2) =
           << <<"ValueReserved", last.origin, DepositValue>>,
              <<"UserInfoAdded", last.origin>> >>
    /\ last.pre.store[last.origin][1].user = GivenUser
    /\ reserved[last.origin] = DepositValue
    /\ last.pre.reserved[last.origin] = DepositValue

(***************************************************************************)
(* C13. force_user_info from the privileged origin, with name and title    *)
(* within the bound and a target that resolves, overwrites the target's    *)
(* entry with the given user and the deposit the entry carried, or zero if *)
(* there was no entry; it touches no other entry, calls no collaborator,   *)
(* changes no balance and deposits no event.                               *)
(***************************************************************************)
C13_ForceCarriesDeposit ==
    (/\ RootCall("force_user_info")
     /\ ValidLengths
     /\ last.recipient \in Identities)
    => LET w       == last.recipient
           carried == IF last.pre.store[w] = <<>> THEN 0
                      ELSE last.pre.store[w][1].deposit
       IN  /\ last.result = "Ok"
           /\ AccountToUserInfo =
                  [last.pre.store EXCEPT
                      ![w] = <<[user |-> GivenUser, deposit |-> carried]>>]
           /\ last.calls = <<>>
           /\ free = last.pre.free
           /\ reserved = last.pre.reserved
           /\ slashed = last.pre.slashed
           /\ events = last.pre.events

\* The privileged origin has replaced the user of an entry that carries a
\* reserved deposit.
C13_Witness ==
    /\ RootCall("force_user_info")
    /\ last.result = "Ok"
    /\ last.pre.store[last.recipient] # <<>>
    /\ last.pre.store[last.recipient][1].deposit = DepositValue
    /\ last.pre.store[last.recipient][1].user # GivenUser
    /\ AccountToUserInfo[last.recipient][1].deposit = DepositValue

\* The events the last call deposited.
Appended == SubSeq(events, Len(last.pre.events) + 1, Len(events))

\* The events of a successful insert_user_info, clear_user_info and of a
\* call that deposits none, and the pairing of ValueReserved with
\* UserInfoAdded throughout the log.
EventsOfInsertAndClear ==
    /\ Len(events) >= Len(last.pre.events)
    /\ SubSeq(events, 1, Len(last.pre.events)) = last.pre.events
    /\ (last.op = "insert_user_info" /\ last.result = "Ok") =>
          LET w == last.origin
          IN  Appended =
                  IF last.pre.store[w] = <<>>
                  THEN << <<"ValueReserved", w, DepositValue>>,
                          <<"UserInfoAdded", w>> >>
                  ELSE << <<"UserInfoUpdated", w>>, <<"UserInfoAdded", w>> >>
    /\ (last.op = "clear_user_info" /\ last.result = "Ok") =>
          LET w == last.origin
          IN  Appended = << <<"ValueUnreserved", w, last.pre.store[w][1].deposit>>,
                            <<"UserInfoDeleted", w>> >>
    /\ \A k \in 1..Len(events) :
          events[k][1] = "ValueReserved" =>
              /\ k < Len(events)
              /\ events[k + 1] = <<"UserInfoAdded", events[k][2]>>

(***************************************************************************)
(* C14. As claimed: a successful insert_user_info that creates an entry    *)
(* appends exactly [ValueReserved(id, DepositValue), UserInfoAdded(id)],   *)
(* one that updates an entry appends exactly [UserInfoUpdated(id),         *)
(* UserInfoAdded(id)], a successful clear_user_info appends exactly        *)
(* [ValueUnreserved(id, amount), UserInfoDeleted(id)], a successful        *)
(* kill_user_info appends exactly [SlashedBalance(target, total),          *)
(* UserInfoDeleted(target)] with total the value forfeited, and            *)
(* ValueReserved is always followed by UserInfoAdded of the same account.  *)
(***************************************************************************)
C14_EventsPerCall ==
    /\ EventsOfInsertAndClear
    /\ (last.op = "kill_user_info" /\ last.result = "Ok") =>
          LET w     == last.recipient
              total == last.pre.reserved[w] - reserved[w]
          IN  Appended = << <<"SlashedBalance", w, total>>,
                            <<"UserInfoDeleted", w>> >>

(***************************************************************************)
(* C14, what the code does: the events are deposited in the claimed order  *)
(* and with the claimed accounts; the amount in SlashedBalance is the      *)
(* second item slash_reserved returned (what could not be slashed).        *)
(***************************************************************************)
C14_EventOrder ==
    /\ EventsOfInsertAndClear
    /\ (last.op = "kill_user_info" /\ last.result = "Ok") =>
          LET w        == last.recipient
              stored   == last.pre.store[w][1].deposit
              unslashed == stored - (last.pre.reserved[w] - reserved[w])
          IN  Appended = << <<"SlashedBalance", w, unslashed>>,
                            <<"UserInfoDeleted", w>> >>

\* Account i holds an entry whose stored deposit is zero, in state s.
ZeroDeposit(s, i) == s.store[i] # <<>> /\ s.store[i][1].deposit = 0

\* An entry with a zero deposit was already such an entry before the last
\* call, or the last call was a force_user_info on the account while it had
\* no entry.  By induction from genesis (no entries): with a zero-deposit
\* entry, force_user_info was applied to the account since it last had none.
ZeroDepositOnlyByForce ==
    \A i \in Identities :
        ZeroDeposit(State, i) =>
            \/ ZeroDeposit(last.pre, i)
            \/ /\ last.op = "force_user_info"
               /\ last.result = "Ok"
               /\ last.recipient = i
               /\ last.pre.store[i] = <<>>

(***************************************************************************)
(* C15. As claimed: for any DepositValue the configuration allows (zero    *)
(* included), an entry whose stored deposit is zero exists for an account  *)
(* only if force_user_info was applied to the account while it had no      *)
(* entry, since it last had none.                                          *)
(***************************************************************************)
C15_ZeroOnlyByForceAnyDeposit == ZeroDepositOnlyByForce

(***************************************************************************)
(* C15, amended. For any positive DepositValue, an entry whose stored      *)
(* deposit is zero exists for an account only if force_user_info was       *)
(* applied to the account while it had no entry, since it last had none.   *)
(***************************************************************************)
C15_ZeroOnlyByForce == DepositValue > 0 => ZeroDepositOnlyByForce

\* With a positive DepositValue, an entry made by force_user_info has kept
\* its zero deposit through an insert_user_info of its account.
C15_Witness ==
    /\ DepositValue > 0
    /\ SignedCall("insert_user_info")
    /\ last.result = "Ok"
    /\ ZeroDeposit(last.pre, last.origin)
    /\ ZeroDeposit(State, last.origin)

\* A call as a value, and the outcome of dispatching it on state s.
Apply(s, c) ==
    CASE c.op = "insert_user_info" ->
             insert_user_info(s, c.origin, c.name, c.age, c.title)
      [] c.op = "clear_user_info" -> clear_user_info(s, c.origin)
      [] c.op = "kill_user_info" -> kill_user_info(s, c.origin, c.recipient)
      [] c.op = "force_user_info" ->
             force_user_info(s, c.origin, c.recipient, c.name, c.age, c.title)

\* The calls whose subject is account w: the caller of insert_user_info and
\* clear_user_info, the target of kill_user_info and force_user_info.
CallsOn(w) ==
    {[NoCall EXCEPT !.op = "insert_user_info", !.origin = w,
                    !.name = n, !.age = a, !.title = t] :
         n \in Vecs, a \in Ages, t \in Vecs}
    \cup {[NoCall EXCEPT !.op = "clear_user_info", !.origin = w]}
    \cup {[NoCall EXCEPT !.op = "kill_user_info", !.origin = o, !.recipient = w] :
         o \in Origins}
    \cup UNION {{[NoCall EXCEPT !.op = "force_user_info", !.origin = o,
                                !.recipient = w,
                                !.name = n, !.age = a, !.title = t] :
                     n \in Vecs, t \in Vecs} : o \in Origins, a \in Ages}

\* The subject of the last call, if it has one.
HasSubject ==
    \/ last.op \in {"insert_user_info", "clear_user_info"} /\ last.origin \in Identities
    \/ last.op \in {"kill_user_info", "force_user_info"} /\ last.recipient \in Identities

Subject ==
    IF last.op \in {"insert_user_info", "clear_user_info"}
    THEN last.origin ELSE last.recipient

C17_NoPartialRelease ==
    /\ (last.op = "clear_user_info" /\ last.result = "Ok") =>
          LET w      == last.origin
              stored == last.pre.store[w][1].deposit
          IN  /\ last.calls = << <<"unreserve", w, stored>> >>
              /\ last.pre.reserved[w] >= stored
              /\ unreserve(Ledger(last.pre), w, stored).remaining = 0
              /\ last.pre.reserved[w] - reserved[w] = stored
              /\ free[w] - last.pre.free[w] = stored
    /\ (last.op = "kill_user_info" /\ last.result = "Ok") =>
          LET w      == last.recipient
              stored == last.pre.store[w][1].deposit
          IN  /\ last.calls[1] = <<"slash_reserved", w, stored>>
              /\ last.pre.reserved[w] >= stored
              /\ slash_reserved(Ledger(last.pre), w, stored).remaining = 0
              /\ last.pre.reserved[w] - reserved[w] = stored
              /\ slashed - last.pre.slashed = stored

\* An entry backed by a positive deposit has been cleared and the whole
\* deposit has come back to the free balance.
C17_Witness ==
    /\ SignedCall("clear_user_info")
    /\ last.result = "Ok"
    /\ last.pre.store[last.origin][1].deposit = DepositValue
    /\ DepositValue > 0
    /\ reserved[last.origin] = 0
    /\ free[last.origin] = last.pre.free[last.origin] + DepositValue

(***************************************************************************)
(* C18. With all four calls, force_user_info included: every stored        *)
(* deposit is zero or DepositValue, and the reserved balance of an account *)
(* equals the deposit stored in its entry (zero without an entry).  So an  *)
(* account whose entry force_user_info created can insert_user_info and    *)
(* clear_user_info without DepositValue being reserved from it or released *)
(* to it.                                                                  *)
(***************************************************************************)
C18_ReservedMatchesEntryWithForce ==
    /\ \A i \in Identities :
          IF AccountToUserInfo[i] = <<>>
          THEN reserved[i] = 0
          ELSE /\ AccountToUserInfo[i][1].deposit \in {0, DepositValue}
               /\ reserved[i] = AccountToUserInfo[i][1].deposit
    /\ (/\ last.op \in {"insert_user_info", "clear_user_info"}
        /\ last.result = "Ok"
        /\ ZeroDeposit(last.pre, last.origin))
       => /\ free = last.pre.free
          /\ reserved = last.pre.reserved
          /\ ReserveCalls(last.calls) = 0
          /\ last.op = "clear_user_info" =>
                 last.calls = << <<"unreserve", last.origin, 0>> >>
          /\ last.op = "insert_user_info" => ZeroDeposit(State, last.origin)

\* An account that can afford the deposit has cleared an entry that
\* force_user_info created and the account then updated: nothing was ever
\* reserved or released.
C18_Witness ==
    /\ SignedCall("clear_user_info")
    /\ last.result = "Ok"
    /\ ZeroDeposit(last.pre, last.origin)
    /\ last.pre.events = << <<"UserInfoUpdated", last.origin>>,
                            <<"UserInfoAdded", last.origin>> >>
    /\ free[last.origin] >= DepositValue
    /\ DepositValue > 0

(***************************************************************************)
(* C19. force_user_info checks the origin first, then the bounds of name   *)
(* and title, then resolves the target: an origin that is not privileged   *)
(* gets BadOrigin even with an over-long name or title, the privileged     *)
(* origin with an over-long field gets TooLong even when the target does   *)
(* not resolve, and a failing call creates or changes no entry.            *)
(***************************************************************************)
C19_ForceCheckOrder ==
    last.op = "force_user_info" =>
        /\ last.origin # Root => last.result = "BadOrigin"
        /\ (last.origin = Root /\ ~ValidLengths) => last.result = "TooLong"
        /\ (last.origin = Root /\ ValidLengths /\ last.recipient \notin Identities)
              => last.result = "LookupError"
        /\ last.result # "Ok" => AccountToUserInfo = last.pre.store

\* The privileged origin passed an over-long title and a target that does
\* not resolve, while an entry exists.
C19_Witness ==
    /\ RootCall("force_user_info")
    /\ Len(last.title) > MaxLength
    /\ last.recipient = UnknownIndex
    /\ last.result = "TooLong"
    /\ \E i \in Identities : last.pre.store[i] # <<>>

====
